---- MODULE Spec2Model ----
(***************************************************************************)
(* cg-dashboard: the OAuth2 login handshake (controllers: LoginHandshake,  *)
(* OAuthCallback, Logout, Ping), the cookie-backed session it keeps in the *)
(* browser, and the start-up path (startApp, Settings.InitSettings).       *)
(*                                                                         *)
(* Two specifications share the variables:                                 *)
(*   SpecBoot - the process from its environment to ListenAndServe/exit;   *)
(*   Spec     - a listening server handling requests of one browser.       *)
(***************************************************************************)
EXTENDS Integers, Sequences, FiniteSets, TLC

VARIABLES
    phase,      \* "init" | "listening" | "exited": where the process is
    env,        \* the environment variable set handed to startApp
    settings,   \* helpers.Settings as populated by InitSettings (Nil before)
    router,     \* the router startApp serves (Nil before)
    protect,    \* the csrf.Protect middleware startApp builds (Nil before)
    monitoring, \* whether startMonitoring ran
    retErr,     \* the error InitApp handed to startApp
    transport,  \* http.DefaultClient.Transport, a process global
    now,        \* the wall clock
    cookie,     \* the "session" cookie the browser holds (Nil: none)
    last,       \* the request just handled: its input, its steps, its response
                \* (NoRequest when the last step was not a request)
    issued      \* history: the nonces the provider redirects gave the
                \* browser's session and no response has replaced since,
                \* oldest first (the last two)

vars == <<phase, env, settings, router, protect, monitoring, retErr,
          transport, now, cookie, last, issued>>

(***************************************************************************)
(* Bounds of the model.                                                    *)
(***************************************************************************)
MaxAbsent == 1     \* environment keys that may be absent at once
NumNonces == 2     \* distinct values the state generator can return
MaxTime == 2       \* clock ticks

\* Go's nil (interface, pointer, error).  Every nullable value is a record
\* with a type field, so that nil compares unequal to each of them.
Nil == [type |-> "nil"]
\* an environment key no lookup finds
Absent == "<unset>"
\* a map[interface{}]interface{} holding nothing
EmptyValues == [k \in {} |-> Nil]

(***************************************************************************)
(* The environment.  Key names are those of the helpers.*EnvVar constants. *)
(***************************************************************************)
StringKeys == {"HostnameEnvVar", "APIURLEnvVar", "LoginURLEnvVar", "UAAURLEnvVar",
               "LogURLEnvVar", "ClientIDEnvVar", "ClientSecretEnvVar",
               "SMTPFromEnvVar", "SMTPHostEnvVar"}
DefaultedKeys == {"TemplatesPathEnvVar", "BuildInfoEnvVar", "SMTPPassEnvVar",
                  "SMTPPortEnvVar", "SMTPUserEnvVar", "SMTPCertEnvVar", "TICSecretEnvVar"}
BoolKeys == {"PProfEnabledEnvVar", "LocalCFEnvVar", "SecureCookiesEnvVar"}
HexKeys == {"CSRFKeyEnvVar", "SessionAuthenticationEnvVar", "SessionEncryptionEnvVar"}
MonitoringKeys == {"NewRelicLicenseEnvVar"}
Keys == StringKeys \cup DefaultedKeys \cup BoolKeys \cup HexKeys \cup MonitoringKeys

\* The values a key can be bound to: its own text for a string, a bool
\* literal, a hex string or one that is not hex.
ValuesOf(k) ==
    IF k \in BoolKeys THEN {"true", "false"}
    ELSE IF k \in HexKeys THEN {"hex", "nothex"}
    ELSE {k}

\* the sets of at most n keys
RECURSIVE KeySets(_)
KeySets(n) ==
    IF n = 0 THEN {{}}
    ELSE LET smaller == KeySets(n - 1)
         IN smaller \cup {A \cup {k} : A \in smaller, k \in Keys}

\* the environment binding every key outside A, the typed ones as v says
EnvOf(A, v) ==
    [k \in Keys |-> IF k \in A THEN Absent
                    ELSE IF k \in BoolKeys \cup HexKeys THEN v[k] ELSE k]

TypedValues ==
    {v \in [BoolKeys \cup HexKeys -> {"true", "false", "hex", "nothex"}] :
        \A k \in BoolKeys \cup HexKeys : v[k] \in ValuesOf(k)}

\* the sets of keys read with a default, with or without the profiling toggle
DefaultedSets ==
    {B \cup P : B \in SUBSET DefaultedKeys, P \in {{}, {"PProfEnabledEnvVar"}}}

Envs == {EnvOf(A, v) : A \in KeySets(MaxAbsent) \cup DefaultedSets, v \in TypedValues}

(***************************************************************************)
(* env.VarSet lookups and encoding/hex, as InitSettings uses them.         *)
(***************************************************************************)
VarNotFound(k) == [type |-> "error", kind |-> "VarNotFound", text |-> k]
Error(text) == [type |-> "error", kind |-> "errorString", text |-> text]

\* envVars.String(name, default)
String(e, k, default) == IF e[k] = Absent THEN default ELSE e[k]

\* strconv.ParseBool on the literals the environment holds
ParseBool(v) == v = "true"

\* hex.DecodeString: <<bytes, err>>
DecodeString(v) ==
    IF v = "hex" THEN <<[type |-> "bytes", of |-> v], Nil>>
    ELSE <<Nil, Error("encoding/hex: invalid byte")>>

\* a + b on URLs and paths
Concat(a, b) == <<a, b>>

ZeroSettings ==
    [OAuthConfig |-> Nil, ConsoleAPI |-> "", LoginURL |-> "", Sessions |-> Nil,
     StateGenerator |-> Nil, UaaURL |-> "", LogURL |-> "", TemplatesPath |-> "",
     HighPrivilegedOauthConfig |-> Nil, PProfEnabled |-> FALSE, BuildInfo |-> "",
     SecureCookies |-> FALSE, LocalCF |-> FALSE, AppURL |-> "", SMTPHost |-> "",
     SMTPPort |-> "", SMTPUser |-> "", SMTPPass |-> "", SMTPFrom |-> "",
     SMTPCert |-> "", TICSecret |-> "", CSRFKey |-> Nil]

\* InitSettings runs its statements on r = [err, s, locals]: the error to
\* return, the receiver and the local variables.
Fail(r, err) == [r EXCEPT !.err = err]

\* s.<field> = envVars.String(key, default)
SetString(r, e, field, k, default) ==
    [r EXCEPT !.s[field] = String(e, k, default)]

\* s.<field> = envVars.MustString(key): panics with VarNotFound, which the
\* deferred recover turns into the returned error.
SetMustString(r, e, field, k) ==
    IF e[k] = Absent THEN Fail(r, VarNotFound(k))
    ELSE [r EXCEPT !.s[field] = e[k]]

\* s.<field> = envVars.MustBool(key)
SetMustBool(r, e, field, k) ==
    IF e[k] = Absent THEN Fail(r, VarNotFound(k))
    ELSE [r EXCEPT !.s[field] = ParseBool(e[k])]

\* (variant: the safe guard left out)
InsecureCookieGuardAbsent(r) == r

\* the safe guard on insecure cookies
InsecureCookieGuard(r) ==
    IF r.s.LocalCF = FALSE /\ r.s.SecureCookies = FALSE
    THEN Fail(r, Error("cannot run with insecure cookies when targeting a production CF environment"))
    ELSE r

\* the first of the keys, in order, that is absent ("" when none is)
FirstAbsent(e, ks) ==
    LET missing == {i \in 1..Len(ks) : e[ks[i]] = Absent}
    IN IF missing = {} THEN ""
       ELSE ks[CHOOSE i \in missing : \A j \in missing : i <= j]

\* s.OAuthConfig = &oauth2.Config{...}; s.StateGenerator = func...
SetOAuthConfig(r, e) ==
    LET k == FirstAbsent(e, <<"ClientIDEnvVar", "ClientSecretEnvVar",
                              "LoginURLEnvVar", "UAAURLEnvVar">>)
    IN IF k # "" THEN Fail(r, VarNotFound(k))
       ELSE [r EXCEPT
             !.s.OAuthConfig =
                 [type |-> "oauth2.Config",
                  ClientID |-> e["ClientIDEnvVar"],
                  ClientSecret |-> e["ClientSecretEnvVar"],
                  RedirectURL |-> Concat(r.s.AppURL, "/oauth2callback"),
                  Scopes |-> <<"cloud_controller.read", "cloud_controller.write",
                               "cloud_controller.admin", "scim.read", "openid">>,
                  AuthURL |-> Concat(e["LoginURLEnvVar"], "/oauth/authorize"),
                  TokenURL |-> Concat(e["UAAURLEnvVar"], "/oauth/token")],
             !.s.StateGenerator = [type |-> "func", body |-> "GenerateRandomString(32)"]]

\* s.CSRFKey, err = hex.DecodeString(envVars.MustString(CSRFKeyEnvVar))
SetCSRFKey(r, e) ==
    IF e["CSRFKeyEnvVar"] = Absent THEN Fail(r, VarNotFound("CSRFKeyEnvVar"))
    ELSE LET d == DecodeString(e["CSRFKeyEnvVar"])
         IN IF d[2] # Nil
            THEN Fail([r EXCEPT !.s.CSRFKey = d[1]], Error("could not decode hex env var"))
            ELSE [r EXCEPT !.s.CSRFKey = d[1]]

\* <local>, err := hex.DecodeString(envVars.MustString(key))
DecodeKey(r, e, local, k) ==
    IF e[k] = Absent THEN Fail(r, VarNotFound(k))
    ELSE LET d == DecodeString(e[k])
         IN IF d[2] # Nil
            THEN Fail(r, IF local = "sessionAuthenticationKey"
                         THEN Error("could not decode hex env var") ELSE d[2])
            ELSE [r EXCEPT !.locals[local] = d[1]]

\* store := sessions.NewCookieStore(...); HttpOnly, Secure; s.Sessions = store
SetSessions(r) ==
    [r EXCEPT
     !.s.Sessions = [type |-> "sessions.CookieStore",
                     keyPairs |-> <<r.locals.sessionAuthenticationKey,
                                    r.locals.sessionEncryptionKey>>,
                     Path |-> "/",
                     MaxAge |-> 86400 * 30,
                     HttpOnly |-> TRUE,
                     Secure |-> r.s.SecureCookies]]

\* s.HighPrivilegedOauthConfig = &clientcredentials.Config{...}
SetHighPrivilegedOauthConfig(r, e) ==
    LET k == FirstAbsent(e, <<"ClientIDEnvVar", "ClientSecretEnvVar", "UAAURLEnvVar">>)
    IN IF k # "" THEN Fail(r, VarNotFound(k))
       ELSE [r EXCEPT
             !.s.HighPrivilegedOauthConfig =
                 [type |-> "clientcredentials.Config",
                  ClientID |-> e["ClientIDEnvVar"],
                  ClientSecret |-> e["ClientSecretEnvVar"],
                  Scopes |-> <<"scim.invite", "cloud_controller.admin", "scim.read">>,
                  TokenURL |-> Concat(e["UAAURLEnvVar"], "/oauth/token")]]

\* the statements of InitSettings, in program order
St(op, field, key, default) == [op |-> op, field |-> field, key |-> key, default |-> default]
Statements ==
    << St("String", "TemplatesPath", "TemplatesPathEnvVar", "./templates"),
       St("MustString", "AppURL", "HostnameEnvVar", ""),
       St("MustString", "ConsoleAPI", "APIURLEnvVar", ""),
       St("MustString", "LoginURL", "LoginURLEnvVar", ""),
       St("MustString", "UaaURL", "UAAURLEnvVar", ""),
       St("MustString", "LogURL", "LogURLEnvVar", ""),
       St("MustBool", "PProfEnabled", "PProfEnabledEnvVar", ""),
       St("String", "BuildInfo", "BuildInfoEnvVar", "developer-build"),
       St("MustBool", "LocalCF", "LocalCFEnvVar", ""),
       St("MustBool", "SecureCookies", "SecureCookiesEnvVar", ""),
       St("InsecureCookieGuard", "", "", ""),
       St("OAuthConfig", "OAuthConfig", "", ""),
       St("CSRFKey", "CSRFKey", "CSRFKeyEnvVar", ""),
       St("DecodeKey", "sessionAuthenticationKey", "SessionAuthenticationEnvVar", ""),
       St("DecodeKey", "sessionEncryptionKey", "SessionEncryptionEnvVar", ""),
       St("Sessions", "Sessions", "", ""),
       St("HighPrivilegedOauthConfig", "HighPrivilegedOauthConfig", "", ""),
       St("MustString", "SMTPFrom", "SMTPFromEnvVar", ""),
       St("MustString", "SMTPHost", "SMTPHostEnvVar", ""),
       St("String", "SMTPPass", "SMTPPassEnvVar", ""),
       St("String", "SMTPPort", "SMTPPortEnvVar", ""),
       St("String", "SMTPUser", "SMTPUserEnvVar", ""),
       St("String", "SMTPCert", "SMTPCertEnvVar", ""),
       St("String", "TICSecret", "TICSecretEnvVar", "") >>

Statement(st, r, e) ==
    CASE st.op = "String" -> SetString(r, e, st.field, st.key, st.default)
      [] st.op = "MustString" -> SetMustString(r, e, st.field, st.key)
      [] st.op = "MustBool" -> SetMustBool(r, e, st.field, st.key)
      [] st.op = "InsecureCookieGuard" -> InsecureCookieGuard(r)
      [] st.op = "OAuthConfig" -> SetOAuthConfig(r, e)
      [] st.op = "CSRFKey" -> SetCSRFKey(r, e)
      [] st.op = "DecodeKey" -> DecodeKey(r, e, st.field, st.key)
      [] st.op = "Sessions" -> SetSessions(r)
      [] st.op = "HighPrivilegedOauthConfig" -> SetHighPrivilegedOauthConfig(r, e)

\* the statements from the i-th on; a set error is the return
RECURSIVE RunFrom(_, _, _)
RunFrom(i, r, e) ==
    IF i > Len(Statements) \/ r.err # Nil THEN r
    ELSE RunFrom(i + 1, Statement(Statements[i], r, e), e)

(***************************************************************************)
(* Settings.InitSettings: [err, s], the returned error and the receiver.   *)
(***************************************************************************)
InitSettings(e) ==
    RunFrom(1, [err |-> Nil, s |-> ZeroSettings,
                locals |-> [sessionAuthenticationKey |-> Nil,
                            sessionEncryptionKey |-> Nil]], e)

\* controllers.InitApp: builds the Settings with InitSettings and hands its
\* error to the caller; the router is built only when there is none.
InitApp(e) ==
    LET r == InitSettings(e)
    IN IF r.err # Nil THEN [router |-> Nil, settings |-> Nil, err |-> r.err]
       ELSE [router |-> [type |-> "web.Router", pprof |-> FALSE],
             settings |-> r.s, err |-> Nil]

(***************************************************************************)
(* startApp: the process state it leaves for the environment e.            *)
(***************************************************************************)
\* InitApp failed: the error is printed and the process exits with 1.
ExitedWith(err) ==
    [phase |-> "exited", settings |-> Nil, router |-> Nil, protect |-> Nil,
     monitoring |-> FALSE, retErr |-> err]

\* InitApp succeeded: pprof routes when enabled, monitoring when licensed,
\* the csrf middleware around the router, then ListenAndServe.
ListeningWith(app, e) ==
    [phase |-> "listening",
     settings |-> app.settings,
     router |-> [app.router EXCEPT !.pprof = app.settings.PProfEnabled],
     protect |-> [type |-> "csrf.Protect", key |-> app.settings.CSRFKey,
                  Secure |-> app.settings.SecureCookies],
     monitoring |-> String(e, "NewRelicLicenseEnvVar", "") # "",
     retErr |-> Nil]

Started(e) ==
    LET app == InitApp(e)
    IN IF app.err # Nil THEN ExitedWith(app.err) ELSE ListeningWith(app, e)

NoRequest ==
    [handler |-> "none", query |-> [state |-> "", code |-> ""], cookie0 |-> Nil,
     log |-> <<>>, status |-> 0, location |-> <<>>, setCookie |-> Nil,
     values |-> EmptyValues, exchanged |-> Nil, refreshIn |-> Nil, refreshed |-> Nil]

startApp ==
    /\ phase = "init"
    /\ LET p == Started(env)
       IN /\ phase' = p.phase
          /\ settings' = p.settings
          /\ router' = p.router
          /\ protect' = p.protect
          /\ monitoring' = p.monitoring
          /\ retErr' = p.retErr
    /\ UNCHANGED <<env, transport, now, cookie, last, issued>>

InitBoot ==
    /\ phase = "init"
    /\ env \in Envs
    /\ settings = Nil
    /\ router = Nil
    /\ protect = Nil
    /\ monitoring = FALSE
    /\ retErr = Nil
    /\ transport = Nil
    /\ now = 1
    /\ cookie = Nil
    /\ last = NoRequest
    /\ issued = <<>>

NextBoot == startApp

SpecBoot == InitBoot /\ [][NextBoot]_vars

(***************************************************************************)
(* The session store (gorilla CookieStore behind settings.Sessions).       *)
(* session.Values is a map: a function whose domain is the keys it holds.  *)
(***************************************************************************)
\* an interface{} holding a Go string
Str(x) == [type |-> "string", val |-> x]

\* m[k] on a map[interface{}]interface{}: nil when the key is missing
Lookup(m, k) == IF k \in DOMAIN m THEN m[k] ELSE Nil

\* m[k] = v
Put(m, k, v) == [x \in DOMAIN m \cup {k} |-> IF x = k THEN v ELSE m[x]]

\* delete(m, k)
Delete(m, k) == [x \in DOMAIN m \ {k} |-> m[x]]

\* a cookie the store wrote, and one it cannot decode
ValidCookie(values) == [type |-> "cookie", decodes |-> TRUE, Values |-> values]
BadCookie == [type |-> "cookie", decodes |-> FALSE, Values |-> EmptyValues]

\* c.Settings.Sessions.Get(req, "session"): the session of the request's
\* cookie, or a new empty one when there is none or it does not decode
\* (the error is ignored by every caller).
SessionsGet(s, c) ==
    [Values |-> IF c # Nil /\ c.decodes THEN c.Values ELSE EmptyValues,
     Options |-> [Path |-> s.Sessions.Path, MaxAge |-> s.Sessions.MaxAge,
                  HttpOnly |-> s.Sessions.HttpOnly, Secure |-> s.Sessions.Secure]]

\* session.Save(req, rw) when encoding succeeds: the Set-Cookie header
SetCookie(session) ==
    [type |-> "Set-Cookie", Values |-> session.Values, MaxAge |-> session.Options.MaxAge,
     HttpOnly |-> session.Options.HttpOnly, Secure |-> session.Options.Secure]

\* the browser's cookie after a response: a Set-Cookie with a negative
\* MaxAge discards it, any other replaces it, none leaves it.
CookieAfter(c, header) ==
    IF header = Nil THEN c
    ELSE IF header.MaxAge < 0 THEN Nil
    ELSE ValidCookie(header.Values)

(***************************************************************************)
(* oauth2 tokens and the provider.                                         *)
(***************************************************************************)
Token(access, refresh, expiry) ==
    [type |-> "oauth2.Token", AccessToken |-> access, RefreshToken |-> refresh,
     Expiry |-> expiry]

Nonces == {ToString(i) : i \in 1..NumNonces}
RefreshTokens == {"refresh-1", "refresh-2"}
OpaqueAccessToken == "opaque-access"
JWTAccessToken == "jwt-access"

\* the expiry the library derives from expires_in: the zero time when the
\* response carries none
Expiries == {0, now + 1}

\* what the token endpoint can answer the exchange of `code`
\* (token_format=opaque) with; Nil is a failed call.  A response without
\* access_token is a failure, and so is the exchange of no code; the opaque
\* token comes with its expires_in.
ExchangeAnswers(code) ==
    {Nil} \cup IF code = "" THEN {}
               ELSE {Token(OpaqueAccessToken, r, now + 1) : r \in RefreshTokens \cup {""}}

\* what the token endpoint can answer a refresh_token grant with
RefreshAnswers ==
    {Nil} \cup {Token(JWTAccessToken, r, x) : r \in RefreshTokens \cup {""}, x \in Expiries}

\* oauth2.Token.Valid
Valid(t) ==
    /\ t # Nil
    /\ t.AccessToken # ""
    /\ ~(t.Expiry # 0 /\ t.Expiry < now)

\* OAuthConfig.TokenSource(ctx, t).Token(): the reusing source returns t
\* itself while it is valid; otherwise the refresher needs a refresh token
\* and asks the endpoint, whose answer is `answer`.
TokenSourceToken(t, answer) ==
    IF Valid(t) THEN [token |-> t, err |-> Nil, called |-> FALSE]
    ELSE IF t.RefreshToken = ""
         THEN [token |-> Nil, called |-> FALSE,
               err |-> Error("oauth2: token expired and refresh token is not set")]
    ELSE IF answer = Nil
         THEN [token |-> Nil, called |-> TRUE, err |-> Error("oauth2: cannot fetch token")]
    ELSE [token |-> answer, err |-> Nil, called |-> TRUE]

\* Settings.CreateContext: http.DefaultClient.Transport afterwards
CreateContext(s, tr) ==
    IF s.LocalCF THEN [type |-> "http.Transport", InsecureSkipVerify |-> TRUE] ELSE tr

\* helpers.GetValidToken: the session's token when its expiry is in the
\* future, nil otherwise.
GetValidToken(s, c) ==
    LET token == Lookup(SessionsGet(s, c).Values, "token")
    IN IF token.type = "oauth2.Token" /\ token.Expiry > now THEN token ELSE Nil

dashboardURL(s) == Concat(s.AppURL, "/#/dashboard")
logoutURL(s) == Concat(s.LoginURL, "/logout.do")
\* OAuthConfig.AuthCodeURL(state, oauth2.AccessTypeOnline)
AuthCodeURL(s, state) ==
    <<s.OAuthConfig.AuthURL, "response_type=code", s.OAuthConfig.ClientID,
      s.OAuthConfig.RedirectURL, s.OAuthConfig.Scopes, "access_type=online", state>>

\* a handler's record of its request: what it was given
Request(handler, q, c) ==
    [NoRequest EXCEPT !.handler = handler, !.query = q, !.cookie0 = c,
                      !.values = IF c # Nil /\ c.decodes THEN c.Values ELSE EmptyValues]

\* what a handler leaves: its record, the browser's cookie, the transport.
\* A handler that returns without writing a status answers 200.
Outcome(r, c, tr) ==
    [last |-> [r EXCEPT !.status = IF @ = 0 THEN 200 ELSE @],
     cookie |-> CookieAfter(c, r.setCookie),
     transport |-> tr]

\* session.Save(req, rw): on success the response carries the Set-Cookie
Save(r, session, saveOk) ==
    IF saveOk THEN [r EXCEPT !.log = Append(@, "save"), !.setCookie = SetCookie(session)]
    ELSE [r EXCEPT !.log = Append(@, "save failed")]

\* http.Redirect(rw, req, url, http.StatusFound)
Redirect(r, url) ==
    [r EXCEPT !.log = Append(@, "redirect"), !.status = 302, !.location = url]

\* the nonces pending in the browser's session after response r: a
\* redirect to the provider hands out the nonce of its URL, a Set-Cookie
\* of OAuthCallback (state deleted) or Logout (cookie expired) ends them
IssuedAfter(iss, s, r) ==
    IF r.handler = "LoginHandshake" /\ r.status = 302 /\ r.location # dashboardURL(s)
    THEN LET all == Append(iss, r.location[7])
         IN IF Len(all) > 2 THEN Tail(all) ELSE all
    ELSE IF r.handler \in {"OAuthCallback", "Logout"} /\ r.setCookie # Nil THEN <<>>
    ELSE iss

(***************************************************************************)
(* Context.OAuthCallback                                                   *)
(***************************************************************************)
\* (variant: only the empty state is rejected)
StateCheckOnlyEmpty(state, session) == state = ""

\* state == "" || state != session.Values["state"]
StateCheckFails(state, session) ==
    state = "" \/ Str(state) # Lookup(session.Values, "state")

\* rw.WriteHeader(http.StatusUnauthorized); return
Unauthorized(r) ==
    [r EXCEPT !.log = Append(@, "state rejected"), !.status = 401]

\* (variant: the opaque token handed on as it came)
WipeNothing(token) == token

\* token.AccessToken = ""; token.Expiry = time.Time{}
Wipe(token) == [token EXCEPT !.AccessToken = "", !.Expiry = 0]

\* (variant: the refreshed token kept as the refresh returned it)
KeepRefreshedToken(token, originalRefreshToken) == token

\* token.RefreshToken = originalRefreshToken
KeepRefreshToken(token, originalRefreshToken) ==
    [token EXCEPT !.RefreshToken = originalRefreshToken]

\* session.Values["token"] = *token; delete(session.Values, "state")
StoreToken(session, token) ==
    [session EXCEPT !.Values = Delete(Put(@, "token", token), "state")]

\* (variant: a failed exchange falls through to the dashboard redirect)
ExchangeFailedRedirects(r) ==
    [r EXCEPT !.log = Append(Append(@, "exchange failed"), "redirect"),
              !.status = 302, !.location = <<"/#/dashboard">>]

\* a failed exchange: the error is printed and the handler returns
ExchangeFailed(r) == [r EXCEPT !.log = Append(@, "exchange failed")]

\* the handler from the code exchange on (the state check has passed)
ExchangeAndStore(r, s, tr, session, a1, a2, saveOk) ==
    LET tr1 == CreateContext(s, tr)
        r1 == [r EXCEPT !.log = Append(@, "exchange"), !.exchanged = a1]
    IN IF a1 = Nil THEN Outcome(ExchangeFailed(r1), r.cookie0, tr1)
       ELSE LET originalRefreshToken == a1.RefreshToken
                wiped == Wipe(a1)
                tr2 == CreateContext(s, tr1)
                src == TokenSourceToken(wiped, a2)
                r2 == [r1 EXCEPT
                       !.log = IF src.called THEN Append(@, "refresh") ELSE @,
                       !.refreshIn = wiped,
                       !.refreshed = src.token]
            IN IF src.err # Nil THEN Outcome(ExchangeFailed(r2), r.cookie0, tr2)
               ELSE LET token == KeepRefreshToken(src.token, originalRefreshToken)
                        session1 == StoreToken(session, token)
                        r3 == Save([r2 EXCEPT !.values = session1.Values], session1, saveOk)
                    IN Outcome(Redirect(r3, dashboardURL(s)), r.cookie0, tr2)

\* (variant: the code is exchanged before the state is compared)
OAuthCallbackExchangeFirst(s, c, tr, q, a1, a2, saveOk) ==
    LET session == SessionsGet(s, c)
        o == ExchangeAndStore(Request("OAuthCallback", q, c), s, tr, session, a1, a2, saveOk)
        checked == [o.last EXCEPT !.log = Append(@, "state check")]
    IN IF StateCheckFails(q.state, session)
       THEN Outcome(Unauthorized([checked EXCEPT !.setCookie = Nil, !.location = <<>>]),
                    c, o.transport)
       ELSE [o EXCEPT !.last = checked]

OAuthCallbackOutcome(s, c, tr, q, a1, a2, saveOk) ==
    LET session == SessionsGet(s, c)
        r == [Request("OAuthCallback", q, c) EXCEPT !.log = <<"state check">>]
    IN IF StateCheckFails(q.state, session) THEN Outcome(Unauthorized(r), c, tr)
       ELSE ExchangeAndStore(r, s, tr, session, a1, a2, saveOk)

OAuthCallback ==
    /\ phase = "listening"
    /\ \E state \in Nonces \cup {""}, code \in {"", "code"} :
       \* an answer or a Save the handler never asks for is drawn once
       \E a1 \in IF StateCheckFails(state, SessionsGet(settings, cookie))
                  THEN {Nil} ELSE ExchangeAnswers(code) :
       \E a2 \in IF a1 = Nil \/ a1.RefreshToken = "" THEN {Nil} ELSE RefreshAnswers :
       \E saveOk \in IF a2 = Nil THEN {FALSE} ELSE BOOLEAN :
          LET o == OAuthCallbackOutcome(settings, cookie, transport,
                                        [state |-> state, code |-> code], a1, a2, saveOk)
          IN
             /\ last' = o.last
             /\ cookie' = o.cookie
             /\ transport' = o.transport
             /\ issued' = IssuedAfter(issued, settings, o.last)
    /\ UNCHANGED <<phase, env, settings, router, protect, monitoring, retErr, now>>

(***************************************************************************)
(* Context.LoginHandshake and Context.redirect                             *)
(***************************************************************************)
\* (variant: the error of Save is not looked at)
redirectUnsaved(r, s, c, tr, gen, saveOk) ==
    LET session == SessionsGet(s, c)
    IN IF gen = ""
       THEN Outcome([r EXCEPT !.log = Append(@, "state generation failed")], c, tr)
       ELSE LET session1 == [session EXCEPT !.Values = Put(@, "state", Str(gen))]
                r1 == Save([r EXCEPT !.log = Append(@, "state generated"),
                                     !.values = session1.Values], session1, saveOk)
            IN Outcome(Redirect(r1, AuthCodeURL(s, gen)), c, tr)

\* (variant: a state the session already holds is not overwritten)
redirectKeepingPending(r, s, c, tr, gen, saveOk) ==
    LET session == SessionsGet(s, c)
    IN IF gen = ""
       THEN Outcome([r EXCEPT !.log = Append(@, "state generation failed")], c, tr)
       ELSE LET session1 == IF "state" \in DOMAIN session.Values THEN session
                            ELSE [session EXCEPT !.Values = Put(@, "state", Str(gen))]
                r1 == Save([r EXCEPT !.log = Append(@, "state generated"),
                                     !.values = session1.Values], session1, saveOk)
            IN IF ~saveOk THEN Outcome(r1, c, tr)
               ELSE Outcome(Redirect(r1, AuthCodeURL(s, gen)), c, tr)

\* c.Settings.StateGenerator(): a fresh nonce, or an error (gen = "")
redirect(r, s, c, tr, gen, saveOk) ==
    LET session == SessionsGet(s, c)
    IN IF gen = ""
       THEN Outcome([r EXCEPT !.log = Append(@, "state generation failed")], c, tr)
       ELSE LET session1 == [session EXCEPT !.Values = Put(@, "state", Str(gen))]
                r1 == Save([r EXCEPT !.log = Append(@, "state generated"),
                                     !.values = session1.Values], session1, saveOk)
            IN IF ~saveOk THEN Outcome(r1, c, tr)
               ELSE Outcome(Redirect(r1, AuthCodeURL(s, gen)), c, tr)

\* (variant: the valid token is not looked for)
LoginHandshakeAlwaysRedirects(s, c, tr, gen, saveOk) ==
    redirect(Request("LoginHandshake", [state |-> "", code |-> ""], c), s, c, tr, gen, saveOk)

LoginHandshakeOutcome(s, c, tr, gen, saveOk) ==
    LET r == Request("LoginHandshake", [state |-> "", code |-> ""], c)
    IN IF GetValidToken(s, c) # Nil
       THEN Outcome(Redirect(r, dashboardURL(s)), c, tr)
       ELSE redirect(r, s, c, tr, gen, saveOk)

LoginHandshake ==
    /\ phase = "listening"
    /\ \E gen \in Nonces \cup {""}, saveOk \in BOOLEAN :
          LET o == LoginHandshakeOutcome(settings, cookie, transport, gen, saveOk)
          IN /\ last' = o.last
             /\ cookie' = o.cookie
             /\ transport' = o.transport
             /\ issued' = IssuedAfter(issued, settings, o.last)
    /\ UNCHANGED <<phase, env, settings, router, protect, monitoring, retErr, now>>

(***************************************************************************)
(* Context.Logout                                                          *)
(***************************************************************************)
LogoutOutcome(s, c, tr, saveOk) ==
    LET session == SessionsGet(s, c)
        session1 == [session EXCEPT !.Values = Put(@, "token", Nil),
                                    !.Options.MaxAge = -1]
        r == [Request("Logout", [state |-> "", code |-> ""], c) EXCEPT
              !.values = session1.Values]
    IN Outcome(Redirect(Save(r, session1, saveOk), logoutURL(s)), c, tr)

Logout ==
    /\ phase = "listening"
    /\ \E saveOk \in BOOLEAN :
          LET o == LogoutOutcome(settings, cookie, transport, saveOk)
          IN /\ last' = o.last
             /\ cookie' = o.cookie
             /\ transport' = o.transport
             /\ issued' = IssuedAfter(issued, settings, o.last)
    /\ UNCHANGED <<phase, env, settings, router, protect, monitoring, retErr, now>>

(***************************************************************************)
(* Context.Ping                                                            *)
(***************************************************************************)
createPingData(s) == [Status |-> "alive", BuildInfo |-> s.BuildInfo]
isSystemHealthy(p) == p.Status = "alive"
\* json.Marshal of two strings does not fail: <<body, ok>>
toJSON(p) == <<p, TRUE>>

PingOutcome(s, c, tr) ==
    LET data == createPingData(s)
        json == toJSON(data)
        r == Request("Ping", [state |-> "", code |-> ""], c)
        r1 == IF ~isSystemHealthy(data) \/ ~json[2] THEN [r EXCEPT !.status = 500] ELSE r
    IN Outcome([r1 EXCEPT !.log = <<"write">>], c, tr)

Ping ==
    /\ phase = "listening"
    /\ LET o == PingOutcome(settings, cookie, transport)
       IN /\ last' = o.last
          /\ cookie' = o.cookie
          /\ transport' = o.transport
    /\ UNCHANGED <<phase, env, settings, router, protect, monitoring, retErr, now,
                   issued>>

(***************************************************************************)
(* The browser and the clock.                                              *)
(***************************************************************************)
\* the browser loses the cookie, or presents one the store cannot decode
BrowserCookie ==
    /\ phase = "listening"
    /\ cookie' \in {Nil, BadCookie}
    /\ cookie' # cookie
    /\ last' = NoRequest
    /\ issued' = <<>>
    /\ UNCHANGED <<phase, env, settings, router, protect, monitoring, retErr,
                   transport, now>>

Tick ==
    /\ phase = "listening"
    /\ now <= MaxTime
    /\ now' = now + 1
    /\ last' = NoRequest
    /\ UNCHANGED <<phase, env, settings, router, protect, monitoring, retErr,
                   transport, cookie, issued>>

(***************************************************************************)
(* Spec: a server that started, from environments binding every key.       *)
(***************************************************************************)
\* environments binding every key, profiling off
ServingEnvs ==
    {e \in Envs : (\A k \in Keys : e[k] # Absent) /\ e["PProfEnabledEnvVar"] = "false"}

Init ==
    /\ env \in ServingEnvs
    /\ Started(env).phase = "listening"
    /\ phase = Started(env).phase
    /\ settings = Started(env).settings
    /\ router = Started(env).router
    /\ protect = Started(env).protect
    /\ monitoring = Started(env).monitoring
    /\ retErr = Started(env).retErr
    /\ transport = Nil
    /\ now = 1
    /\ cookie = Nil
    /\ last = NoRequest
    /\ issued = <<>>

Next ==
    \/ LoginHandshake
    \/ OAuthCallback
    \/ Logout
    \/ Ping
    \/ BrowserCookie
    \/ Tick

Spec == Init /\ [][Next]_vars

(***************************************************************************)
(* Properties.  They read the request just handled (last) against the      *)
(* cookie it came with (last.cookie0) and the cookie the browser holds now.*)
(***************************************************************************)
\* the session values the request's cookie decoded to
Values0 ==
    IF last.cookie0 # Nil /\ last.cookie0.decodes THEN last.cookie0.Values ELSE EmptyValues

\* the `state` query parameter is empty or is not the session's stored state
StateRefused ==
    LET stored == Lookup(Values0, "state")
    IN \/ last.query.state = ""
       \/ stored.type # "string"
       \/ stored.val # last.query.state

\* the handler left the session as it found it and wrote no cookie
SessionUntouched ==
    /\ last.values = Values0
    /\ last.setCookie = Nil
    /\ cookie = last.cookie0

Issued(call) == \E i \in 1..Len(last.log) : last.log[i] = call

\* a callback both of whose exchange calls succeeded
CallbackSucceeded ==
    /\ last.handler = "OAuthCallback"
    /\ last.exchanged # Nil
    /\ last.refreshed # Nil

\* C1: a callback whose state parameter is empty or differs from the
\* session's stored state (none stored included) is answered 401 and
\* leaves the session unmodified: no token written, the stored state kept,
\* nothing saved.
C1_RefusedCallbackIs401AndLeavesSession ==
    (last.handler = "OAuthCallback" /\ StateRefused) =>
        /\ last.status = 401
        /\ SessionUntouched
        /\ Lookup(last.values, "token") = Lookup(Values0, "token")
        /\ Lookup(last.values, "state") = Lookup(Values0, "state")

\* a callback carrying a nonce other than the one the session holds
C1_Witness ==
    /\ last.handler = "OAuthCallback"
    /\ last.query.state # ""
    /\ Lookup(Values0, "state").type = "string"
    /\ Lookup(Values0, "state").val # last.query.state
    /\ last.status = 401

\* C2: the state comparison is the first step of every callback, and a
\* callback whose state is refused issues neither the code exchange nor
\* the refresh.
C2_StateCheckBeforeAnyExchange ==
    last.handler = "OAuthCallback" =>
        /\ Len(last.log) >= 1
        /\ last.log[1] = "state check"
        /\ \A i \in 1..Len(last.log) :
              last.log[i] \in {"exchange", "refresh"} =>
                  \E j \in 1..(i - 1) : last.log[j] = "state check"
        /\ StateRefused =>
              /\ ~Issued("exchange")
              /\ ~Issued("refresh")
              /\ last.exchanged = Nil
              /\ last.refreshed = Nil

\* a callback without a state parameter against a session with a pending one
C2_Witness ==
    /\ last.handler = "OAuthCallback"
    /\ last.query.state = ""
    /\ last.query.code # ""
    /\ Lookup(Values0, "state").type = "string"
    /\ last.log = <<"state check", "state rejected">>

\* C3: after a successful callback the stored token's refresh token is the
\* one the first (opaque) exchange returned, whatever the refresh returned.
C3_RefreshTokenIsTheFirstExchanges ==
    CallbackSucceeded =>
        /\ Lookup(last.values, "token").type = "oauth2.Token"
        /\ Lookup(last.values, "token").RefreshToken = last.exchanged.RefreshToken
        /\ last.setCookie # Nil =>
              Lookup(last.setCookie.Values, "token").RefreshToken = last.exchanged.RefreshToken

\* a successful callback whose refresh returned another refresh token
C3_Witness ==
    /\ CallbackSucceeded
    /\ last.refreshed.RefreshToken # last.exchanged.RefreshToken
    /\ last.refreshed.RefreshToken # ""
    /\ last.setCookie # Nil

\* C4: after a successful callback the stored access token is non-empty
\* and is the one the second (JWT) call returned; the opaque one was wiped
\* (access token emptied, expiry zeroed) before that call, and no session
\* ever holds it.
C4_AccessTokenIsTheRefreshed ==
    /\ CallbackSucceeded =>
          /\ Lookup(last.values, "token").AccessToken # ""
          /\ Issued("refresh")
          /\ Lookup(last.values, "token").AccessToken = last.refreshed.AccessToken
          /\ Lookup(last.values, "token").AccessToken # last.exchanged.AccessToken
          /\ last.refreshIn.AccessToken = ""
          /\ last.refreshIn.Expiry = 0
    /\ (cookie # Nil /\ Lookup(cookie.Values, "token").type = "oauth2.Token") =>
          Lookup(cookie.Values, "token").AccessToken # OpaqueAccessToken

\* a successful callback whose token reached the browser
C4_Witness ==
    /\ CallbackSucceeded
    /\ last.exchanged.AccessToken = OpaqueAccessToken
    /\ cookie # Nil
    /\ Lookup(cookie.Values, "token").type = "oauth2.Token"
    /\ Lookup(cookie.Values, "token").AccessToken = JWTAccessToken

\* C5: a callback that passed the state check and one of whose exchange
\* calls failed ends without a redirect and without storing a token: the
\* session is not saved and holds what it held, its state included.
C5_FailedExchangeStoresNothing ==
    (last.handler = "OAuthCallback" /\ ~StateRefused
        /\ (last.exchanged = Nil \/ last.refreshed = Nil)) =>
        /\ last.status # 302
        /\ last.location = <<>>
        /\ ~Issued("redirect")
        /\ SessionUntouched
        /\ Lookup(last.values, "token") = Lookup(Values0, "token")
        /\ Lookup(last.values, "state") = Str(last.query.state)

\* the code exchange succeeded and the refresh that followed failed
C5_Witness ==
    /\ last.handler = "OAuthCallback"
    /\ last.exchanged # Nil
    /\ Issued("refresh")
    /\ last.refreshed = Nil

\* C6: a login with a session holding a token whose expiry is in the
\* future is redirected to <AppURL>/#/dashboard; no state is generated or
\* stored, the session is unchanged and the provider is not redirected to.
C6_LoginWithValidTokenGoesToDashboard ==
    (/\ last.handler = "LoginHandshake"
     /\ Lookup(Values0, "token").type = "oauth2.Token"
     /\ Lookup(Values0, "token").Expiry > now) =>
        /\ last.status = 302
        /\ last.location = dashboardURL(settings)
        /\ last.log = <<"redirect">>
        /\ SessionUntouched
        /\ Lookup(last.values, "state") = Lookup(Values0, "state")

\* a login with a live token, the session still holding a state
C6_Witness ==
    /\ last.handler = "LoginHandshake"
    /\ Lookup(Values0, "token").type = "oauth2.Token"
    /\ Lookup(Values0, "token").Expiry > now
    /\ last.location = dashboardURL(settings)

\* the login redirected to the provider's authorization endpoint
ToProvider ==
    /\ last.handler = "LoginHandshake"
    /\ last.status = 302
    /\ last.location # dashboardURL(settings)

\* C7: a login redirected to the provider carries in the URL the state the
\* same response persisted, the save coming before the redirect; when the
\* state generation or the save fails there is no redirect to the provider.
C7_ProviderRedirectCarriesPersistedState ==
    /\ ToProvider =>
          /\ last.location = AuthCodeURL(settings, last.location[7])
          /\ last.setCookie # Nil
          /\ Lookup(last.setCookie.Values, "state") = Str(last.location[7])
          /\ cookie = ValidCookie(last.setCookie.Values)
          /\ \E i, j \in 1..Len(last.log) :
                i < j /\ last.log[i] = "save" /\ last.log[j] = "redirect"
    /\ (last.handler = "LoginHandshake"
          /\ (Issued("state generation failed") \/ Issued("save failed"))) =>
          /\ last.status # 302
          /\ last.location = <<>>
          /\ last.setCookie = Nil
          /\ cookie = last.cookie0

\* a login redirected to the provider that replaced a pending state
C7_Witness ==
    /\ ToProvider
    /\ Lookup(Values0, "state").type = "string"
    /\ Lookup(cookie.Values, "state") # Lookup(Values0, "state")

\* C8: the state nonce is single-use: after a successful callback the
\* persisted session holds the token and no state, and a second callback
\* with the same state against that session is answered 401.
C8_StateNonceIsSingleUse ==
    [][(/\ CallbackSucceeded
        /\ last'.handler = "OAuthCallback"
        /\ last'.query.state = last.query.state) =>
            /\ cookie # Nil
            /\ Lookup(cookie.Values, "token").type = "oauth2.Token"
            /\ "state" \notin DOMAIN cookie.Values
            /\ last'.status = 401]_vars

\* C9: whatever the session holds, Logout produces a saved session whose
\* token is cleared and whose cookie MaxAge is negative, and answers 302
\* to <LoginURL>/logout.do.
C9_LogoutSavesClearedExpiringSession ==
    last.handler = "Logout" =>
        /\ last.status = 302
        /\ last.location = logoutURL(settings)
        /\ last.setCookie # Nil
        /\ Lookup(last.setCookie.Values, "token") = Nil
        /\ last.setCookie.MaxAge < 0

\* C10: a process that is accepting connections targets a local CF or
\* writes its cookies Secure (session store and CSRF cookie alike, both as
\* SecureCookies says); with SecureCookies=false and LocalCF=false
\* InitSettings returns an error and startApp exits instead of listening.
C10_ListeningImpliesLocalOrSecure ==
    /\ phase = "listening" =>
          /\ settings.Sessions.Secure = settings.SecureCookies
          /\ protect.Secure = settings.SecureCookies
          /\ settings.LocalCF \/ (settings.Sessions.Secure /\ protect.Secure)
    /\ (env["SecureCookiesEnvVar"] = "false" /\ env["LocalCFEnvVar"] = "false") =>
          /\ InitSettings(env).err # Nil
          /\ phase \in {"init", "exited"}
          /\ phase = "exited" => retErr = InitSettings(env).err

\* startApp exited on the insecure-cookie error
C10_Witness ==
    /\ phase = "exited"
    /\ env["SecureCookiesEnvVar"] = "false"
    /\ env["LocalCFEnvVar"] = "false"
    /\ retErr = Error("cannot run with insecure cookies when targeting a production CF environment")

\* every key InitSettings reads without a default, bar the profiling
\* toggle, is bound and valid: strings present, keys hex, flags present and
\* not both false
MandatoryValid(e) ==
    /\ \A k \in StringKeys : e[k] # Absent
    /\ \A k \in HexKeys : e[k] = "hex"
    /\ e["LocalCFEnvVar"] # Absent
    /\ e["SecureCookiesEnvVar"] # Absent
    /\ e["LocalCFEnvVar"] = "true" \/ e["SecureCookiesEnvVar"] = "true"

\* the field and the default of each key read with a default
Defaulted ==
    [TemplatesPathEnvVar |-> <<"TemplatesPath", "./templates">>,
     BuildInfoEnvVar |-> <<"BuildInfo", "developer-build">>,
     SMTPPassEnvVar |-> <<"SMTPPass", "">>,
     SMTPPortEnvVar |-> <<"SMTPPort", "">>,
     SMTPUserEnvVar |-> <<"SMTPUser", "">>,
     SMTPCertEnvVar |-> <<"SMTPCert", "">>,
     TICSecretEnvVar |-> <<"TICSecret", "">>]

\* the settings hold, for each defaulted key, its value or else its default
DefaultsApplied ==
    \A k \in DefaultedKeys :
        settings[Defaulted[k][1]] = IF env[k] = Absent THEN Defaulted[k][2] ELSE env[k]

\* C11: with every mandatory key present and valid and any
\* subset of the optional keys (SMTP credentials, build info, templates
\* path, profiling toggle) absent, InitSettings returns no error and the
\* absent keys have their defaults.
C11_OptionalKeysFallBack ==
    (phase # "init" /\ MandatoryValid(env)) =>
        /\ retErr = Nil
        /\ phase = "listening"
        /\ DefaultsApplied
        /\ env["PProfEnabledEnvVar"] = Absent => settings.PProfEnabled = FALSE

\* C12: while requests are served, no handler writes process-wide state:
\* Settings, the router and http.DefaultClient are left as startup made
\* them; a step changes only the browser's session cookie, the clock and the
\* record of the request.
C12_HandlersWriteOnlyTheirSession ==
    [][phase = "listening" =>
          /\ settings' = settings
          /\ router' = router
          /\ protect' = protect
          /\ transport' = transport]_vars

\* C13: a callback answered with the 302 to <AppURL>/#/dashboard has
\* persisted its session: the response carries the Set-Cookie whose session
\* holds the new token and no state, and the browser leaves with a cookie
\* that carries a token.
C13_DashboardRedirectMeansPersisted ==
    (/\ last.handler = "OAuthCallback"
     /\ last.status = 302
     /\ last.location = dashboardURL(settings)) =>
        /\ last.setCookie # Nil
        /\ Lookup(last.setCookie.Values, "token").type = "oauth2.Token"
        /\ "state" \notin DOMAIN last.setCookie.Values
        /\ cookie # Nil
        /\ Lookup(cookie.Values, "token").type = "oauth2.Token"

\* C14: a session holds one pending state, the most recently issued: after
\* provider redirects the browser's session stores the nonce of the last
\* one, and when two logins in a row gave the session two different nonces
\* with no callback stored in between, a callback carrying the first is
\* answered 401 and leaves the session alone, and a callback carrying the
\* second passes the state check and goes on to the code exchange.
C14_OnlyLatestNonceAccepted ==
    [][/\ issued # <<>> =>
              /\ cookie # Nil
              /\ cookie.decodes
              /\ Lookup(cookie.Values, "state") = Str(issued[Len(issued)])
       /\ (/\ last'.handler = "OAuthCallback"
           /\ Len(issued) = 2
           /\ issued[1] # issued[2]) =>
              /\ (last'.query.state = issued[1]) =>
                     /\ last'.status = 401
                     /\ last'.setCookie = Nil
                     /\ cookie' = cookie
              /\ (last'.query.state = issued[2]) =>
                     /\ last'.status # 401
                     /\ Len(last'.log) >= 2
                     /\ last'.log[2] = "exchange"]_vars

\* two logins gave the session two different nonces and the callback with
\* the first was refused, the session still holding the second
C14_Witness ==
    /\ last.handler = "OAuthCallback"
    /\ Len(issued) = 2
    /\ issued[1] # issued[2]
    /\ last.query.state = issued[1]
    /\ last.status = 401
    /\ cookie # Nil
    /\ Lookup(cookie.Values, "state") = Str(issued[2])

====
